---- MODULE Spec2Model ----
(***************************************************************************)
(* Model of sage/categories/finite_complex_reflection_groups.py: the       *)
(* parent methods that the category FiniteComplexReflectionGroups and its  *)
(* axioms Irreducible, WellGenerated and WellGenerated.Irreducible attach  *)
(* to a group, over a catalogue of groups taken from the docstrings.       *)
(*                                                                         *)
(* A state is the set of constructed group instances, the per-instance     *)
(* caches of the @cached_method methods, and the record of the last call   *)
(* made on an instance (method, arguments, outcome).                       *)
(***************************************************************************)
EXTENDS Integers, Sequences, FiniteSets, TLC

VARIABLES insts, cardinality_cache, coxeter_elements_cache,
          rational_catalan_number_cache, last, ncalls

vars == <<insts, cardinality_cache, coxeter_elements_cache,
          rational_catalan_number_cache, last, ncalls>>

(***************************************************************************)
(* Bounds of the model.                                                    *)
(***************************************************************************)
MaxCalls == 2
MaxNegP == 4
MaxP == 8
MaxNegM == 1
MaxM == 2
MaxMemoP == 3

(***************************************************************************)
(* The groups.  degrees is ascending, codegrees descending; the two        *)
(* booleans say which axioms the category of the group carries.            *)
(***************************************************************************)
Grp(d, c, s, k, wg, irr) ==
    [degrees |-> d, codegrees |-> c,
     number_of_simple_reflections |-> s,
     number_of_irreducible_components |-> k,
     WellGenerated |-> wg, Irreducible |-> irr]

Names == {"SymmetricGroup(1)", "ColoredPermutations(3,1)",
          "ColoredPermutations(1,3)", "ColoredPermutations(1,4)",
          "ColoredPermutations(2,2)", "ColoredPermutations(3,3)",
          "ReflectionGroup((4,4,3))", "ReflectionGroup((4,2,3))",
          "ReflectionGroup(31)", "ReflectionGroup((1,1,3),(2,1,2))",
          "ReflectionGroup((1,1,3),(3,1,2))"}

\* A group whose class supplies neither degrees() nor codegrees(): the
\* record has neither field.
GrpWithout(s, k, wg, irr) ==
    [number_of_simple_reflections |-> s,
     number_of_irreducible_components |-> k,
     WellGenerated |-> wg, Irreducible |-> irr]

NamesWithout == {"ColoredPermutations(1,3) without degrees",
                 "ColoredPermutations(2,2) without degrees",
                 "ReflectionGroup((4,2,3)) without degrees",
                 "ReflectionGroup((1,1,3),(2,1,2)) without degrees"}

Group ==
    [n \in Names \cup NamesWithout |->
       CASE n = "SymmetricGroup(1)" ->
              Grp(<<>>, <<>>, 0, 0, TRUE, FALSE)
         [] n = "ColoredPermutations(3,1)" ->
              Grp(<<3>>, <<0>>, 1, 1, TRUE, TRUE)
         [] n = "ColoredPermutations(1,3)" ->
              Grp(<<2, 3>>, <<1, 0>>, 2, 1, TRUE, TRUE)
         [] n = "ColoredPermutations(1,4)" ->
              Grp(<<2, 3, 4>>, <<2, 1, 0>>, 3, 1, TRUE, TRUE)
         [] n = "ColoredPermutations(2,2)" ->
              Grp(<<2, 4>>, <<2, 0>>, 2, 1, TRUE, TRUE)
         [] n = "ColoredPermutations(3,3)" ->
              Grp(<<3, 6, 9>>, <<6, 3, 0>>, 3, 1, TRUE, TRUE)
         [] n = "ReflectionGroup((4,4,3))" ->
              Grp(<<3, 4, 8>>, <<5, 4, 0>>, 3, 1, TRUE, TRUE)
         [] n = "ReflectionGroup((4,2,3))" ->
              Grp(<<4, 6, 8>>, <<8, 4, 0>>, 4, 1, FALSE, TRUE)
         [] n = "ReflectionGroup(31)" ->
              Grp(<<8, 12, 20, 24>>, <<28, 16, 12, 0>>, 5, 1, FALSE, TRUE)
         [] n = "ReflectionGroup((1,1,3),(2,1,2))" ->
              Grp(<<2, 2, 3, 4>>, <<2, 1, 0, 0>>, 4, 2, TRUE, FALSE)
         [] n = "ReflectionGroup((1,1,3),(3,1,2))" ->
              Grp(<<2, 3, 3, 6>>, <<3, 1, 0, 0>>, 4, 2, TRUE, FALSE)
         [] n = "ColoredPermutations(1,3) without degrees" ->
              GrpWithout(2, 1, TRUE, TRUE)
         [] n = "ColoredPermutations(2,2) without degrees" ->
              GrpWithout(2, 1, TRUE, TRUE)
         [] n = "ReflectionGroup((4,2,3)) without degrees" ->
              GrpWithout(4, 1, FALSE, TRUE)
         [] n = "ReflectionGroup((1,1,3),(2,1,2)) without degrees" ->
              GrpWithout(4, 2, TRUE, FALSE)]

(***************************************************************************)
(* Arithmetic the methods use.                                             *)
(***************************************************************************)
RECURSIVE sum(_)
sum(s) == IF s = <<>> THEN 0 ELSE Head(s) + sum(Tail(s))

RECURSIVE prod(_)
prod(s) == IF s = <<>> THEN 1 ELSE Head(s) * prod(Tail(s))

RECURSIVE max(_)
max(s) == IF Len(s) = 1 THEN s[1]
          ELSE LET m == max(Tail(s)) IN IF Head(s) >= m THEN Head(s) ELSE m

count(s, x) == Cardinality({i \in 1..Len(s) : s[i] = x})

abs(a) == IF a < 0 THEN 0 - a ELSE a

RECURSIVE gcd(_, _)
gcd(a, b) == IF b = 0 THEN abs(a) ELSE gcd(b, a % abs(b))

(***************************************************************************)
(* Polynomials of ZZ[q]: the sequence of coefficients, constant term      *)
(* first, without trailing zeros; the zero polynomial is << >>.            *)
(***************************************************************************)
PolyTrim(a) ==
    LET nz == {i \in 1..Len(a) : a[i] # 0}
    IN IF nz = {} THEN <<>>
       ELSE SubSeq(a, 1, CHOOSE i \in nz : \A j \in nz : j <= i)

\* sum of a[i] * b[k + 1 - i] for i in lo..hi
RECURSIVE PolyCoef(_, _, _, _, _)
PolyCoef(a, b, k, lo, hi) ==
    IF lo > hi THEN 0
    ELSE IF lo = hi THEN a[lo] * b[k + 1 - lo]
    ELSE LET mid == (lo + hi) \div 2
         IN PolyCoef(a, b, k, lo, mid) + PolyCoef(a, b, k, mid + 1, hi)

PolyMul(a, b) ==
    IF a = <<>> \/ b = <<>> THEN <<>>
    ELSE PolyTrim([k \in 1..(Len(a) + Len(b) - 1) |->
            PolyCoef(a, b, k,
                     IF k + 1 - Len(b) > 1 THEN k + 1 - Len(b) ELSE 1,
                     IF k < Len(a) THEN k ELSE Len(a))])

RECURSIVE PolyProd(_)
PolyProd(s) == IF s = <<>> THEN <<1>> ELSE PolyMul(Head(s), PolyProd(Tail(s)))

\* long division of a by the monic polynomial b: a is what is left of the
\* dividend, quo the coefficients of the quotient found so far
RECURSIVE PolyQuoRem(_, _, _)
PolyQuoRem(a, b, quo) ==
    IF Len(a) < Len(b) THEN quo
    ELSE PolyQuoRem(
           PolyTrim([i \in 1..Len(a) |->
              a[i] - (IF i - (Len(a) - Len(b)) \in 1..Len(b)
                      THEN a[Len(a)] * b[i - (Len(a) - Len(b))] ELSE 0)]),
           b,
           [quo EXCEPT ![Len(a) - Len(b) + 1] = a[Len(a)]])

\* a // b
PolyFloorDiv(a, b) ==
    IF Len(a) < Len(b) THEN <<>>
    ELSE PolyQuoRem(a, b, [i \in 1..(Len(a) - Len(b) + 1) |-> 0])

\* the q-integer 1 + q + ... + q^(n-1) of an integer n >= 0
q_int(n) == [i \in 1..n |-> 1]

(***************************************************************************)
(* Outcome of a call: a returned value or a raised exception.              *)
(***************************************************************************)
Return(v) == [exc |-> "none", value |-> v]

Raise(e, m) == [exc |-> e, value |-> m]

(***************************************************************************)
(* FiniteComplexReflectionGroups.ParentMethods                             *)
(***************************************************************************)
rank(W) == Len(W.degrees)

\* variant: the rank subtracted, as in number_of_reflections
number_of_reflecting_hyperplanes_minus_rank(W) == sum(W.codegrees) - rank(W)

number_of_reflecting_hyperplanes(W) == sum(W.codegrees) + rank(W)

number_of_reflections(W) == sum(W.degrees) - rank(W)

\* variant: the degrees added up
cardinality_sum(W) == sum(W.degrees)

cardinality(W) == prod(W.degrees)

\* variant: at least rank() simple reflections
ParentMethods_is_well_generated_geq(W) ==
    W.number_of_simple_reflections >= rank(W)

ParentMethods_is_well_generated(W) ==
    W.number_of_simple_reflections = rank(W)

\* variant: the criterion of the irreducible groups, 2 a degree once
is_real_irreducible(W) == count(W.degrees, 2) = 1

is_real(W) == count(W.degrees, 2) = W.number_of_irreducible_components

(***************************************************************************)
(* Irreducible.ParentMethods, WellGenerated.ParentMethods and              *)
(* WellGenerated.Irreducible.ParentMethods                                 *)
(***************************************************************************)
Irreducible_coxeter_number(W) ==
    (number_of_reflecting_hyperplanes(W) + number_of_reflections(W))
        \div rank(W)

WellGenerated_is_well_generated(W) == TRUE

\* variant: the first degree in place of the highest
WellGenerated_Irreducible_coxeter_number_first(W) == W.degrees[1]

WellGenerated_Irreducible_coxeter_number(W) == max(W.degrees)

\* method resolution: the methods of the more special category win
is_well_generated(W) ==
    IF W.WellGenerated THEN WellGenerated_is_well_generated(W)
    ELSE ParentMethods_is_well_generated(W)

coxeter_number(W) ==
    IF W.WellGenerated /\ W.Irreducible
    THEN WellGenerated_Irreducible_coxeter_number(W)
    ELSE Irreducible_coxeter_number(W)

(***************************************************************************)
(* Which calls raise for want of degrees() or codegrees(): a method raises *)
(* when a call it makes raises, as no method catches an exception.         *)
(***************************************************************************)
degrees_raises(W) == "degrees" \notin DOMAIN W

codegrees_raises(W) == "codegrees" \notin DOMAIN W

rank_raises(W) == degrees_raises(W)

number_of_reflecting_hyperplanes_raises(W) ==
    codegrees_raises(W) \/ rank_raises(W)

number_of_reflections_raises(W) == degrees_raises(W) \/ rank_raises(W)

cardinality_raises(W) == degrees_raises(W)

ParentMethods_is_well_generated_raises(W) == rank_raises(W)

WellGenerated_is_well_generated_raises(W) == FALSE

is_well_generated_raises(W) ==
    IF W.WellGenerated THEN WellGenerated_is_well_generated_raises(W)
    ELSE ParentMethods_is_well_generated_raises(W)

is_real_raises(W) == degrees_raises(W)

Irreducible_coxeter_number_raises(W) ==
    \/ number_of_reflecting_hyperplanes_raises(W)
    \/ number_of_reflections_raises(W)
    \/ rank_raises(W)

WellGenerated_Irreducible_coxeter_number_raises(W) == degrees_raises(W)

coxeter_number_raises(W) ==
    IF W.WellGenerated /\ W.Irreducible
    THEN WellGenerated_Irreducible_coxeter_number_raises(W)
    ELSE Irreducible_coxeter_number_raises(W)

rational_catalan_number_raises(W) ==
    coxeter_number_raises(W) \/ degrees_raises(W)

Unsupported == Raise("Unsupported", "optional abstract method")

\* the outcome of a call that computes v, or raises for want of a primitive
Outcome(raises, v) == IF raises THEN Unsupported ELSE Return(v)

\* variant: p * deg in place of p * (deg - 1)
rational_catalan_number_terms_deg(W, p) ==
    LET h == coxeter_number(W)
    IN [i \in 1..Len(W.degrees) |-> p + ((p * W.degrees[i]) % h)]

\* the arguments num hands to f, one per degree
rational_catalan_number_terms(W, p) ==
    LET h == coxeter_number(W)
    IN [i \in 1..Len(W.degrees) |-> p + ((p * (W.degrees[i] - 1)) % h)]

\* variant: the two values of the message in the other order
rational_catalan_number_swapped_message(W, p, polynomial) ==
    LET h == coxeter_number(W)
        t == rational_catalan_number_terms(W, p)
    IN IF gcd(h, p) # 1
       THEN Raise("ValueError",
                  <<"parameter p = %s is not coprime to the Coxeter number %s",
                    h, p>>)
       ELSE IF polynomial
       THEN Return(PolyFloorDiv(
                PolyProd([i \in 1..Len(t) |-> q_int(t[i])]),
                PolyProd([i \in 1..Len(t) |-> q_int(W.degrees[i])])))
       ELSE Return(prod(t) \div prod(W.degrees))

rational_catalan_number(W, p, polynomial) ==
    LET h == coxeter_number(W)
        t == rational_catalan_number_terms(W, p)
    IN IF gcd(h, p) # 1
       THEN Raise("ValueError",
                  <<"parameter p = %s is not coprime to the Coxeter number %s",
                    p, h>>)
       ELSE IF polynomial
       THEN Return(PolyFloorDiv(
                PolyProd([i \in 1..Len(t) |-> q_int(t[i])]),
                PolyProd([i \in 1..Len(t) |-> q_int(W.degrees[i])])))
       ELSE Return(prod(t) \div prod(W.degrees))

\* variant: the 1 added to or taken from h, not from m * h
fuss_catalan_number_p_inside(W, m, positive) ==
    LET h == coxeter_number(W)
    IN IF positive THEN m * (h - 1) ELSE m * (h + 1)

\* variant: the two branches exchanged
fuss_catalan_number_p_exchanged(W, m, positive) ==
    LET h == coxeter_number(W)
    IN IF positive THEN m * h + 1 ELSE m * h - 1

fuss_catalan_number_p(W, m, positive) ==
    LET h == coxeter_number(W)
    IN IF positive THEN m * h - 1 ELSE m * h + 1

(***************************************************************************)
(* Group elements.  Some groups of the catalogue are realised as           *)
(* permutation groups: an element is the tuple of the images of 1..k, and  *)
(* simple_reflections gives the generators of the group in the order of    *)
(* its index set.                                                          *)
(***************************************************************************)
PermutationDegree ==
    [n \in Names \cup NamesWithout |->
       CASE n = "SymmetricGroup(1)" -> 1
         [] n = "ColoredPermutations(3,1)" -> 3
         [] n \in {"ColoredPermutations(1,3)",
                   "ColoredPermutations(1,3) without degrees"} -> 3
         [] n = "ColoredPermutations(1,4)" -> 4
         [] n \in {"ColoredPermutations(2,2)",
                   "ColoredPermutations(2,2) without degrees"} -> 4
         [] n \in {"ReflectionGroup((1,1,3),(2,1,2))",
                   "ReflectionGroup((1,1,3),(2,1,2)) without degrees"} -> 7
         [] OTHER -> 0]

PermutationNames == {n \in Names \cup NamesWithout : PermutationDegree[n] > 0}

simple_reflections ==
    [n \in PermutationNames |->
       CASE n = "SymmetricGroup(1)" -> <<>>
         [] n = "ColoredPermutations(3,1)" -> <<(<<2, 3, 1>>)>>
         [] n \in {"ColoredPermutations(1,3)",
                   "ColoredPermutations(1,3) without degrees"} ->
              <<(<<2, 1, 3>>), (<<1, 3, 2>>)>>
         [] n = "ColoredPermutations(1,4)" ->
              <<(<<2, 1, 3, 4>>), (<<1, 3, 2, 4>>), (<<1, 2, 4, 3>>)>>
         [] n \in {"ColoredPermutations(2,2)",
                   "ColoredPermutations(2,2) without degrees"} ->
              <<(<<2, 1, 4, 3>>), (<<1, 4, 3, 2>>)>>
         [] n \in {"ReflectionGroup((1,1,3),(2,1,2))",
                   "ReflectionGroup((1,1,3),(2,1,2)) without degrees"} ->
              <<(<<2, 1, 3, 4, 5, 6, 7>>), (<<1, 3, 2, 4, 5, 6, 7>>),
                (<<1, 2, 3, 5, 4, 7, 6>>), (<<1, 2, 3, 4, 7, 6, 5>>)>>]

one(n) == [i \in 1..PermutationDegree[n] |-> i]

\* g * h: g first, then h
PermMul(g, h) == [i \in DOMAIN g |-> h[g[i]]]

PermInv(g) == [i \in DOMAIN g |-> CHOOSE j \in DOMAIN g : g[j] = i]

\* the product of the elements of the sequence s in the group named n
RECURSIVE group_prod(_, _)
group_prod(n, s) ==
    IF s = <<>> THEN one(n) ELSE PermMul(Head(s), group_prod(n, Tail(s)))

coxeter_element(n) == group_prod(n, simple_reflections[n])

\* the orbit of the elements of S under conjugation by the generators
RECURSIVE ConjugationOrbit(_, _)
ConjugationOrbit(n, S) ==
    LET gens == {simple_reflections[n][i] : i \in DOMAIN simple_reflections[n]}
        T == S \cup {PermMul(PermMul(PermInv(s), x), s) : s \in gens, x \in S}
    IN IF T = S THEN S ELSE ConjugationOrbit(n, T)

conjugacy_class(n, g) == ConjugationOrbit(n, {g})

\* variant: the Coxeter element alone
coxeter_elements_alone(n) == {coxeter_element(n)}

coxeter_elements(n) == conjugacy_class(n, coxeter_element(n))

(***************************************************************************)
(* @cached_method: the cache of an instance maps the arguments of a call   *)
(* to the value it returned; a call that raises stores nothing.            *)
(***************************************************************************)
NoEntries == [k \in {} |-> 0]

\* The outcomes of the uncached method on the arguments the calls below
\* pass, tabulated once; @@ makes the table an explicit function, whose
\* entries are computed a single time.
CatalanNames == {n \in Names : Group[n].WellGenerated /\ Group[n].Irreducible}

CatalanArgs(n) ==
    ((0 - MaxNegP)..MaxP) \cup ((0 - MaxNegM * coxeter_number(Group[n]) - 1)
                         ..(MaxM * coxeter_number(Group[n]) + 1))

CatalanKeys ==
    UNION {{<<n, p, polynomial>> : p \in CatalanArgs(n), polynomial \in BOOLEAN} :
             n \in CatalanNames}

rational_catalan_number_table ==
    [k \in CatalanKeys |-> rational_catalan_number(Group[k[1]], k[2], k[3])]
       @@ NoEntries

\* the outcome of the uncached method on the group named n
rational_catalan_number_uncached(n, p, polynomial) ==
    IF rational_catalan_number_raises(Group[n]) THEN Unsupported
    ELSE IF <<n, p, polynomial>> \in DOMAIN rational_catalan_number_table
    THEN rational_catalan_number_table[<<n, p, polynomial>>]
    ELSE rational_catalan_number(Group[n], p, polynomial)

\* variant: the outcome of a call that raises is stored as well
rational_catalan_number_cached_stores_failure(c, n, p, polynomial) ==
    LET key == <<p, polynomial>>
        out == rational_catalan_number_uncached(n, p, polynomial)
    IN IF key \in DOMAIN c[n]
       THEN [ret |-> Return(c[n][key]), cache |-> c]
       ELSE [ret |-> out,
             cache |-> [c EXCEPT ![n] = (key :> out.value) @@ @]]

\* variant: one cache for all the instances
rational_catalan_number_cached_shared(c, n, p, polynomial) ==
    LET key == <<p, polynomial>>
        out == rational_catalan_number_uncached(n, p, polynomial)
        hits == {a \in DOMAIN c : key \in DOMAIN c[a]}
    IN IF hits # {}
       THEN [ret |-> Return(c[CHOOSE a \in hits : TRUE][key]), cache |-> c]
       ELSE IF out.exc = "none"
       THEN [ret |-> out,
             cache |-> [c EXCEPT ![n] = (key :> out.value) @@ @]]
       ELSE [ret |-> out, cache |-> c]

rational_catalan_number_cached(c, n, p, polynomial) ==
    LET key == <<p, polynomial>>
        out == rational_catalan_number_uncached(n, p, polynomial)
    IN IF key \in DOMAIN c[n]
       THEN [ret |-> Return(c[n][key]), cache |-> c]
       ELSE IF out.exc = "none"
       THEN [ret |-> out,
             cache |-> [c EXCEPT ![n] = (key :> out.value) @@ @]]
       ELSE [ret |-> out, cache |-> c]

\* variant: the outcome of a call that raises is stored as well
cardinality_cached_stores_failure(c, n) ==
    IF <<>> \in DOMAIN c[n]
    THEN [ret |-> Return(c[n][<<>>]), cache |-> c]
    ELSE IF cardinality_raises(Group[n])
    THEN [ret |-> Unsupported,
          cache |-> [c EXCEPT ![n] = (<<>> :> Unsupported.value)]]
    ELSE LET v == cardinality(Group[n])
         IN [ret |-> Return(v), cache |-> [c EXCEPT ![n] = (<<>> :> v)]]

coxeter_elements_cached(c, n) ==
    IF <<>> \in DOMAIN c[n]
    THEN [ret |-> Return(c[n][<<>>]), cache |-> c]
    ELSE LET v == coxeter_elements(n)
         IN [ret |-> Return(v), cache |-> [c EXCEPT ![n] = (<<>> :> v)]]

cardinality_cached(c, n) ==
    IF <<>> \in DOMAIN c[n]
    THEN [ret |-> Return(c[n][<<>>]), cache |-> c]
    ELSE IF cardinality_raises(Group[n])
    THEN [ret |-> Unsupported, cache |-> c]
    ELSE LET v == cardinality(Group[n])
         IN [ret |-> Return(v), cache |-> [c EXCEPT ![n] = (<<>> :> v)]]

fuss_catalan_number(c, n, m, positive, polynomial) ==
    IF coxeter_number_raises(Group[n])
    THEN [ret |-> Unsupported, cache |-> c]
    ELSE rational_catalan_number_cached(
             c, n, fuss_catalan_number_p(Group[n], m, positive), polynomial)

catalan_number(c, n, positive, polynomial) ==
    fuss_catalan_number(c, n, 1, positive, polynomial)

\* variant: all codegrees but the first
number_of_reflections_of_full_support_but_first(c, n) ==
    LET W == Group[n]
        l == cardinality_cached(c, n)
    IN IF rank_raises(W) \/ coxeter_number_raises(W) \/ l.ret.exc # "none"
          \/ codegrees_raises(W)
       THEN [ret |-> Unsupported, cache |-> l.cache]
       ELSE LET codegrees == SubSeq(W.codegrees, 2, Len(W.codegrees))
            IN [ret |-> Return((rank(W) * coxeter_number(W) * prod(codegrees))
                                  \div l.ret.value),
                cache |-> l.cache]

\* takes and gives back the caches of cardinality(), which it calls
number_of_reflections_of_full_support(c, n) ==
    LET W == Group[n]
        l == cardinality_cached(c, n)
    IN IF rank_raises(W) \/ coxeter_number_raises(W) \/ l.ret.exc # "none"
          \/ codegrees_raises(W)
       THEN [ret |-> Unsupported, cache |-> l.cache]
       ELSE LET codegrees == SubSeq(W.codegrees, 1, Len(W.codegrees) - 1)
            IN [ret |-> Return((rank(W) * coxeter_number(W) * prod(codegrees))
                                  \div l.ret.value),
                cache |-> l.cache]

(***************************************************************************)
(* The calls.  q_int is modelled on the integers n >= 0, so a call with    *)
(* polynomial = True is made only where every q-integer it builds is one   *)
(* of a non-negative integer (or where the call raises before building     *)
(* any).                                                                   *)
(***************************************************************************)
QIntArgs(W, p, polynomial) ==
    IF ~polynomial \/ rational_catalan_number_raises(W) THEN TRUE
    ELSE IF gcd(coxeter_number(W), p) # 1 THEN TRUE
    ELSE \A i \in 1..Len(W.degrees) :
            rational_catalan_number_terms(W, p)[i] >= 0

Called(op, n, args, ret) ==
    /\ ncalls < MaxCalls
    /\ ncalls' = ncalls + 1
    /\ last' = [op |-> op, self |-> n, args |-> args, ret |-> ret]
    /\ UNCHANGED insts

Call_rank ==
    \E n \in insts :
       /\ Called("rank", n, <<>>,
                 Outcome(rank_raises(Group[n]), rank(Group[n])))
       /\ UNCHANGED <<cardinality_cache, coxeter_elements_cache,
                      rational_catalan_number_cache>>

Call_number_of_reflecting_hyperplanes ==
    \E n \in insts :
       /\ Called("number_of_reflecting_hyperplanes", n, <<>>,
                 Outcome(number_of_reflecting_hyperplanes_raises(Group[n]),
                         number_of_reflecting_hyperplanes(Group[n])))
       /\ UNCHANGED <<cardinality_cache, coxeter_elements_cache,
                      rational_catalan_number_cache>>

Call_number_of_reflections ==
    \E n \in insts :
       /\ Called("number_of_reflections", n, <<>>,
                 Outcome(number_of_reflections_raises(Group[n]),
                         number_of_reflections(Group[n])))
       /\ UNCHANGED <<cardinality_cache, coxeter_elements_cache,
                      rational_catalan_number_cache>>

Call_cardinality ==
    \E n \in insts :
       LET r == cardinality_cached(cardinality_cache, n)
       IN /\ Called("cardinality", n, <<>>, r.ret)
          /\ cardinality_cache' = r.cache
          /\ UNCHANGED <<coxeter_elements_cache,
                         rational_catalan_number_cache>>

Call_is_well_generated ==
    \E n \in insts :
       /\ Called("is_well_generated", n, <<>>,
                 Outcome(is_well_generated_raises(Group[n]),
                         is_well_generated(Group[n])))
       /\ UNCHANGED <<cardinality_cache, coxeter_elements_cache,
                      rational_catalan_number_cache>>

Call_is_real ==
    \E n \in insts :
       /\ Called("is_real", n, <<>>,
                 Outcome(is_real_raises(Group[n]), is_real(Group[n])))
       /\ UNCHANGED <<cardinality_cache, coxeter_elements_cache,
                      rational_catalan_number_cache>>

Call_coxeter_number ==
    \E n \in insts :
       /\ Group[n].Irreducible
       /\ Called("coxeter_number", n, <<>>,
                 Outcome(coxeter_number_raises(Group[n]),
                         coxeter_number(Group[n])))
       /\ UNCHANGED <<cardinality_cache, coxeter_elements_cache,
                      rational_catalan_number_cache>>

Call_coxeter_elements ==
    \E n \in insts :
       LET r == coxeter_elements_cached(coxeter_elements_cache, n)
       IN /\ Group[n].WellGenerated
          /\ n \in PermutationNames
          /\ Called("coxeter_elements", n, <<>>, r.ret)
          /\ coxeter_elements_cache' = r.cache
          /\ UNCHANGED <<cardinality_cache, rational_catalan_number_cache>>

Call_number_of_reflections_of_full_support ==
    \E n \in insts :
       LET r == number_of_reflections_of_full_support(cardinality_cache, n)
       IN /\ Group[n].WellGenerated /\ Group[n].Irreducible
          /\ Called("number_of_reflections_of_full_support", n, <<>>, r.ret)
          /\ cardinality_cache' = r.cache
          /\ UNCHANGED <<coxeter_elements_cache,
                         rational_catalan_number_cache>>

\* the call self.rational_catalan_number(p, polynomial) on the instance n
rational_catalan_number_call(n, p, polynomial) ==
    LET r == rational_catalan_number_cached(
                 rational_catalan_number_cache, n, p, polynomial)
    IN /\ Group[n].WellGenerated /\ Group[n].Irreducible
       /\ QIntArgs(Group[n], p, polynomial)
       /\ Called("rational_catalan_number", n, <<p, polynomial>>, r.ret)
       /\ rational_catalan_number_cache' = r.cache
       /\ UNCHANGED <<cardinality_cache, coxeter_elements_cache>>

Call_rational_catalan_number ==
    \E n \in insts, p \in (0 - MaxNegP)..MaxP, polynomial \in BOOLEAN :
       rational_catalan_number_call(n, p, polynomial)

Call_fuss_catalan_number ==
    \E n \in insts, m \in (0 - MaxNegM)..MaxM, positive \in BOOLEAN,
       polynomial \in BOOLEAN :
       LET r == fuss_catalan_number(
                    rational_catalan_number_cache, n, m, positive, polynomial)
       IN /\ Group[n].WellGenerated /\ Group[n].Irreducible
          /\ IF coxeter_number_raises(Group[n]) THEN TRUE
             ELSE QIntArgs(Group[n],
                           fuss_catalan_number_p(Group[n], m, positive),
                           polynomial)
          /\ Called("fuss_catalan_number", n,
                    <<m, positive, polynomial>>, r.ret)
          /\ rational_catalan_number_cache' = r.cache
          /\ UNCHANGED <<cardinality_cache, coxeter_elements_cache>>

Call_catalan_number ==
    \E n \in insts, positive \in BOOLEAN, polynomial \in BOOLEAN :
       LET r == catalan_number(
                    rational_catalan_number_cache, n, positive, polynomial)
       IN /\ Group[n].WellGenerated /\ Group[n].Irreducible
          /\ IF coxeter_number_raises(Group[n]) THEN TRUE
             ELSE QIntArgs(Group[n],
                           fuss_catalan_number_p(Group[n], 1, positive),
                           polynomial)
          /\ Called("catalan_number", n, <<positive, polynomial>>, r.ret)
          /\ rational_catalan_number_cache' = r.cache
          /\ UNCHANGED <<cardinality_cache, coxeter_elements_cache>>

\* no call made yet on the instances of insts, the cache that each
\* instance has of each @cached_method empty
Constructed ==
    /\ cardinality_cache = [n \in insts |-> NoEntries]
    /\ coxeter_elements_cache = [n \in insts |-> NoEntries]
    /\ rational_catalan_number_cache = [n \in insts |-> NoEntries]
    /\ last = [op |-> "none", self |-> "none", args |-> <<>>,
               ret |-> Return(0)]
    /\ ncalls = 0

\* one group that supplies degrees() and codegrees()
Init ==
    /\ \E n \in Names : insts = {n}
    /\ Constructed

Next ==
    \/ Call_rank
    \/ Call_number_of_reflecting_hyperplanes
    \/ Call_number_of_reflections
    \/ Call_cardinality
    \/ Call_is_well_generated
    \/ Call_is_real
    \/ Call_coxeter_number
    \/ Call_coxeter_elements
    \/ Call_number_of_reflections_of_full_support
    \/ Call_rational_catalan_number
    \/ Call_fuss_catalan_number
    \/ Call_catalan_number

Spec == Init /\ [][Next]_vars

\* one group that supplies neither degrees() nor codegrees()
InitWithout ==
    /\ \E n \in NamesWithout : insts = {n}
    /\ Constructed

SpecWithout == InitWithout /\ [][Next]_vars

\* two groups, and the calls of the @cached_method methods on them
InitMemo ==
    /\ \E a \in Names, b \in Names : a # b /\ insts = {a, b}
    /\ Constructed

Call_rational_catalan_number_memo ==
    \E n \in insts, p \in 1..MaxMemoP, polynomial \in BOOLEAN :
       rational_catalan_number_call(n, p, polynomial)

NextMemo ==
    \/ Call_cardinality
    \/ Call_coxeter_elements
    \/ Call_rational_catalan_number_memo

SpecMemo == InitMemo /\ [][NextMemo]_vars

(***************************************************************************)
(* Properties.  LastW is the group of the last call; Coprime is stated     *)
(* through common divisors, not through gcd.                               *)
(***************************************************************************)
LastW == Group[last.self]

Divides(d, a) == a % d = 0

Coprime(a, b) ==
    \A d \in 2..(abs(a) + abs(b)) : ~(Divides(d, a) /\ Divides(d, b))

\* C1: rational_catalan_number(p, polynomial) raises ValueError, with p and
\* the Coxeter number in the message, exactly when p is not coprime to the
\* Coxeter number, whatever the polynomial flag; otherwise it returns.
C1_InvalidArgument ==
    last.op = "rational_catalan_number" =>
       LET p == last.args[1]
           h == max(LastW.degrees)
       IN IF Coprime(h, p)
          THEN last.ret.exc = "none"
          ELSE /\ last.ret.exc = "ValueError"
               /\ last.ret.value[2] = p
               /\ last.ret.value[3] = h

C1_Witness ==
    /\ last.op = "rational_catalan_number"
    /\ last.args[2] = TRUE
    /\ last.args[1] < 0
    /\ last.ret.exc = "ValueError"

\* C2: for p coprime to h, rational_catalan_number(p) is the integer R with
\* R * prod(d_i) = prod(p + ((p * (d_i - 1)) mod h)): the floor division
\* loses no remainder.
C2_ExactDivision ==
    (last.op = "rational_catalan_number" /\ last.args[2] = FALSE
       /\ last.ret.exc = "none") =>
       LET p == last.args[1]
           d == LastW.degrees
           h == max(d)
       IN last.ret.value * prod(d)
            = prod([i \in 1..Len(d) |-> p + ((p * (d[i] - 1)) % h)])

C2_Witness ==
    /\ last.op = "rational_catalan_number"
    /\ last.args = <<5, FALSE>>
    /\ LastW.degrees = <<3, 6, 9>>
    /\ last.ret = Return(4)

\* C3 as stated: for the group with degrees [3,6,9] and Coxeter number 9,
\* rational_catalan_number(p) is 7, 12, 15 for p = 5, 7, 8.
C3_Original ==
    (last.op = "rational_catalan_number" /\ last.args[2] = FALSE
       /\ LastW.degrees = <<3, 6, 9>> /\ last.args[1] \in {5, 7, 8}) =>
       last.ret = Return(CASE last.args[1] = 5 -> 7
                           [] last.args[1] = 7 -> 12
                           [] last.args[1] = 8 -> 15)

\* C3 amended: rational_catalan_number(p) is 7, 12, 15 for p = 5, 7, 8 for
\* the group with degrees [2,3] and Coxeter number 3; for the group with
\* degrees [3,6,9] and Coxeter number 9 it is 4, 10, 10.
C3_Values ==
    (last.op = "rational_catalan_number" /\ last.args[2] = FALSE
       /\ last.args[1] \in {5, 7, 8}) =>
       /\ LastW.degrees = <<2, 3>> =>
             last.ret = Return(CASE last.args[1] = 5 -> 7
                                 [] last.args[1] = 7 -> 12
                                 [] last.args[1] = 8 -> 15)
       /\ LastW.degrees = <<3, 6, 9>> =>
             last.ret = Return(CASE last.args[1] = 5 -> 4
                                 [] last.args[1] = 7 -> 10
                                 [] last.args[1] = 8 -> 10)

C3_Witness ==
    /\ last.op = "rational_catalan_number"
    /\ last.args = <<8, FALSE>>
    /\ LastW.degrees = <<2, 3>>
    /\ last.ret = Return(15)

\* C4: fuss_catalan_number(m, positive, polynomial) is
\* rational_catalan_number(m*h - 1 if positive else m*h + 1, polynomial),
\* catalan_number(positive, polynomial) is
\* fuss_catalan_number(1, positive, polynomial), and catalan_number() is
\* rational_catalan_number(h + 1).
C4_Delegation ==
    LET h == coxeter_number(LastW)
    IN /\ last.op = "fuss_catalan_number" =>
             last.ret = rational_catalan_number_uncached(
                           last.self,
                           IF last.args[2] THEN last.args[1] * h - 1
                                           ELSE last.args[1] * h + 1,
                           last.args[3])
       /\ last.op = "catalan_number" =>
             /\ last.ret = fuss_catalan_number(
                              rational_catalan_number_cache, last.self, 1,
                              last.args[1], last.args[2]).ret
             /\ last.args = <<FALSE, FALSE>> =>
                   last.ret = rational_catalan_number_uncached(
                                 last.self, h + 1, FALSE)

C4_Witness ==
    /\ last.op = "fuss_catalan_number"
    /\ last.args = <<2, TRUE, TRUE>>
    /\ last.ret.exc = "none"
    /\ Len(last.ret.value) > 1

\* C5: for m >= 1, fuss_catalan_number(m) is prod(d_i + m*h) / prod(d_i)
\* with h = max(d_i); catalan_number() is prod(d_i + h) / prod(d_i), which
\* is 14 for degrees [2,3,4].
C5_ClosedForm ==
    LET d == LastW.degrees
        h == max(d)
    IN /\ (last.op = "fuss_catalan_number" /\ last.args[1] >= 1
             /\ last.args[2] = FALSE /\ last.args[3] = FALSE) =>
             /\ last.ret.exc = "none"
             /\ last.ret.value * prod(d)
                  = prod([i \in 1..Len(d) |-> d[i] + last.args[1] * h])
       /\ (last.op = "catalan_number" /\ last.args = <<FALSE, FALSE>>) =>
             /\ last.ret.exc = "none"
             /\ last.ret.value * prod(d)
                  = prod([i \in 1..Len(d) |-> d[i] + h])
             /\ d = <<2, 3, 4>> => last.ret.value = 14

C5_Witness ==
    /\ last.op = "catalan_number"
    /\ last.args = <<FALSE, FALSE>>
    /\ LastW.degrees = <<2, 3, 4>>
    /\ last.ret = Return(14)

\* C6: on a group that is well generated and irreducible, the Coxeter number
\* of the irreducible groups, (hyperplanes + reflections) // rank, and the
\* overriding max(degrees) are the same integer.
C6_CoxeterNumbersAgree ==
    /\ \A n \in insts :
          (Group[n].WellGenerated /\ Group[n].Irreducible) =>
             Irreducible_coxeter_number(Group[n])
               = WellGenerated_Irreducible_coxeter_number(Group[n])
    /\ (last.op = "coxeter_number" /\ LastW.WellGenerated) =>
          last.ret = Return(Irreducible_coxeter_number(LastW))

C6_Witness ==
    /\ last.op = "coxeter_number"
    /\ LastW.WellGenerated /\ LastW.Irreducible
    /\ Len(LastW.degrees) >= 2
    /\ last.ret = Return(LastW.degrees[Len(LastW.degrees)])

C8_Cardinality ==
    last.op = "cardinality" =>
       /\ last.ret = Return(prod(LastW.degrees))
       /\ LastW.degrees = <<>> => last.ret = Return(1)
       /\ LastW.degrees = <<2, 3, 4>> => last.ret = Return(24)

C8_Witness ==
    /\ last.op = "cardinality"
    /\ LastW.degrees = <<>>
    /\ last.ret = Return(1)

\* C9: is_well_generated() is True if and only if
\* number_of_simple_reflections() equals rank(), also on the groups of the
\* well-generated category, whose is_well_generated() is overridden.
C9_WellGenerated ==
    last.op = "is_well_generated" =>
       last.ret = Return(LastW.number_of_simple_reflections
                           = Len(LastW.degrees))

C9_Witness ==
    /\ last.op = "is_well_generated"
    /\ LastW.WellGenerated
    /\ last.ret = Return(TRUE)

\* C10: is_real() is True exactly when the number of entries of degrees()
\* equal to 2 is number_of_irreducible_components().
C10_Real ==
    last.op = "is_real" =>
       last.ret = Return(Cardinality({i \in 1..Len(LastW.degrees) :
                                         LastW.degrees[i] = 2})
                           = LastW.number_of_irreducible_components)

C10_Witness ==
    /\ last.op = "is_real"
    /\ LastW.number_of_irreducible_components = 2
    /\ last.ret = Return(TRUE)

\* C13: on a well-generated irreducible group of rank n >= 1,
\* number_of_reflections_of_full_support() is
\* (n * coxeter_number() * P) // cardinality(), P the product of the
\* codegrees but the last of the descending sequence; in rank 1 P is the
\* empty product 1 and the result is 1.
C13_FullSupport ==
    last.op = "number_of_reflections_of_full_support" =>
       LET d == LastW.degrees
           c == LastW.codegrees
           n == Len(d)
           P == prod([i \in 1..(Len(c) - 1) |-> c[i]])
       IN /\ n >= 1
          /\ last.ret = Return((n * max(d) * P) \div prod(d))
          /\ n = 1 => (P = 1 /\ last.ret = Return(1))

C13_Witness ==
    /\ last.op = "number_of_reflections_of_full_support"
    /\ Len(LastW.degrees) = 1
    /\ last.ret = Return(1)

\* C15: fuss_catalan_number(m, positive, polynomial) and
\* catalan_number(positive, polynomial) never raise the ValueError of
\* rational_catalan_number: both m*h + 1 and m*h - 1 are coprime to the
\* Coxeter number h, for every m of either sign.
C15_NeverNotCoprime ==
    last.op \in {"fuss_catalan_number", "catalan_number"} =>
       LET h == max(LastW.degrees)
           m == IF last.op = "catalan_number" THEN 1 ELSE last.args[1]
       IN /\ h >= 1
          /\ Coprime(h, m * h + 1)
          /\ Coprime(h, m * h - 1)
          /\ last.ret.exc = "none"

C15_Witness ==
    /\ last.op = "fuss_catalan_number"
    /\ last.args[1] < 0
    /\ last.args[2] = TRUE
    /\ last.ret.exc = "none"

\* the elements of the permutation group named n: what the products of
\* its generators reach from the identity
RECURSIVE Generated(_, _)
Generated(n, S) ==
    LET gens == {simple_reflections[n][i] : i \in DOMAIN simple_reflections[n]}
        T == S \cup {PermMul(x, s) : s \in gens, x \in S}
    IN IF T = S THEN S ELSE Generated(n, T)

GroupElements == [n \in PermutationNames |-> Generated(n, {one(n)})] @@ NoEntries

Conjugate(g, c) == PermMul(PermMul(g, c), PermInv(g))

\* C14: on a well-generated group, coxeter_elements() is the conjugacy
\* class of coxeter_element(): it holds coxeter_element(), holds g*c*g^-1
\* for every element g of the group and every member c, and holds nothing
\* that is not conjugate to coxeter_element(); the call stores the set, a
\* later call on the instance returns the stored set, and no call changes
\* a stored set.
C14_Step ==
    /\ last'.op = "coxeter_elements" =>
          LET n == last'.self
              C == last'.ret.value
              G == GroupElements[n]
              c0 == coxeter_element(n)
          IN /\ Group[n].WellGenerated
             /\ last'.ret.exc = "none"
             /\ c0 \in C
             /\ \A g \in G : \A c \in C : Conjugate(g, c) \in C
             /\ \A x \in C : \E g \in G : x = Conjugate(g, c0)
             /\ coxeter_elements_cache'[n] = (<<>> :> C)
             /\ <<>> \in DOMAIN coxeter_elements_cache[n] =>
                   C = coxeter_elements_cache[n][<<>>]
    /\ \A n \in insts :
          <<>> \in DOMAIN coxeter_elements_cache[n] =>
             coxeter_elements_cache'[n] = coxeter_elements_cache[n]

C14_ConjugacyClass == [][C14_Step]_vars

C14_Witness ==
    /\ last.op = "coxeter_elements"
    /\ ncalls = 2
    /\ Cardinality(GroupElements[last.self]) = 24
    /\ Cardinality(last.ret.value) = 6
    /\ coxeter_elements_cache[last.self][<<>>] = last.ret.value

\* C16: a call rational_catalan_number(p, polynomial) that raises because
\* p is not coprime to the Coxeter number leaves the cache of the method as
\* it was and stores no entry for (p, polynomial); the same call made next
\* raises the same error again; a call that returns, made next, returns
\* what the method computes on its arguments.
C16_Step ==
    /\ (last'.op = "rational_catalan_number"
          /\ last'.ret.exc = "ValueError") =>
          /\ ~Coprime(max(Group[last'.self].degrees), last'.args[1])
          /\ rational_catalan_number_cache' = rational_catalan_number_cache
          /\ last'.args \notin
                DOMAIN rational_catalan_number_cache'[last'.self]
    /\ (last.op = "rational_catalan_number" /\ last.ret.exc = "ValueError"
          /\ last'.op = "rational_catalan_number") =>
          /\ (last'.self = last.self /\ last'.args = last.args) =>
                last'.ret = last.ret
          /\ last'.ret.exc = "none" =>
                last'.ret = rational_catalan_number_uncached(
                                last'.self, last'.args[1], last'.args[2])

C16_FailureLeavesCache == [][C16_Step]_vars

C16_Witness ==
    /\ last.op = "rational_catalan_number"
    /\ last.ret.exc = "ValueError"
    /\ ncalls = 2
    /\ DOMAIN rational_catalan_number_cache[last.self] # {}

\* the derived operations that the statement of C11 names
DependOnDegrees ==
    {"rank", "number_of_reflections", "cardinality", "is_real",
     "is_well_generated", "coxeter_number", "rational_catalan_number",
     "number_of_reflecting_hyperplanes",
     "number_of_reflections_of_full_support"}

NothingCached ==
    \A n \in insts :
       /\ cardinality_cache[n] = NoEntries
       /\ rational_catalan_number_cache[n] = NoEntries

\* C11 as stated: on a group that supplies neither degrees() nor
\* codegrees(), every one of the named operations, is_well_generated()
\* among them, raises Unsupported and leaves nothing cached.
C11_Original ==
    last.op \in DependOnDegrees =>
       (last.ret.exc = "Unsupported" /\ NothingCached)

\* C11: on a group that supplies neither degrees() nor codegrees(), rank,
\* number_of_reflections, cardinality, is_real, coxeter_number,
\* rational_catalan_number, number_of_reflecting_hyperplanes and
\* number_of_reflections_of_full_support raise Unsupported and leave
\* nothing cached; is_well_generated raises Unsupported on a group outside
\* the well-generated category and returns True on a group inside it.
C11_Unsupported ==
    /\ NothingCached
    /\ last.op \in DependOnDegrees \ {"is_well_generated"} =>
          last.ret.exc = "Unsupported"
    /\ last.op = "is_well_generated" =>
          IF LastW.WellGenerated THEN last.ret = Return(TRUE)
          ELSE last.ret.exc = "Unsupported"

C11_Witness ==
    /\ last.op = "cardinality"
    /\ "degrees" \notin DOMAIN LastW
    /\ last.ret.exc = "Unsupported"
    /\ ncalls = 2
    /\ cardinality_cache[last.self] = NoEntries

Memoized == {"cardinality", "coxeter_elements", "rational_catalan_number"}

\* C12: whatever calls of cardinality(), coxeter_elements() and
\* rational_catalan_number(p, polynomial) were made on the instances, a
\* call returns what the method computes, uncached, on that instance and
\* those arguments; the same call made twice in a row returns the same
\* value; the caches of an instance hold, under each argument tuple, the
\* value of the method on that instance and that tuple, so that no stored
\* result answers for another instance, another p or another flag.
C12_Step ==
    /\ last'.op = "cardinality" =>
          last'.ret = Return(cardinality(Group[last'.self]))
    /\ last'.op = "coxeter_elements" =>
          last'.ret = Return(coxeter_elements(last'.self))
    /\ last'.op = "rational_catalan_number" =>
          last'.ret = rational_catalan_number_uncached(
                          last'.self, last'.args[1], last'.args[2])
    /\ (last'.op \in Memoized /\ last'.op = last.op
          /\ last'.self = last.self /\ last'.args = last.args) =>
          last'.ret = last.ret
    /\ \A n \in insts :
          /\ \A k \in DOMAIN cardinality_cache'[n] :
                k = <<>> /\ cardinality_cache'[n][k] = cardinality(Group[n])
          /\ \A k \in DOMAIN coxeter_elements_cache'[n] :
                k = <<>> /\ coxeter_elements_cache'[n][k] = coxeter_elements(n)
          /\ \A k \in DOMAIN rational_catalan_number_cache'[n] :
                Return(rational_catalan_number_cache'[n][k])
                   = rational_catalan_number_uncached(n, k[1], k[2])

C12_Memoization == [][C12_Step]_vars

C12_Witness ==
    /\ last.op = "rational_catalan_number"
    /\ \E a \in insts :
          /\ a # last.self
          /\ last.args \in DOMAIN rational_catalan_number_cache[a]
          /\ last.args \in DOMAIN rational_catalan_number_cache[last.self]
          /\ rational_catalan_number_cache[a][last.args]
               # rational_catalan_number_cache[last.self][last.args]
          /\ last.ret
               = Return(rational_catalan_number_cache[last.self][last.args])

====
